---- MODULE Spec2Model ----
(***************************************************************************)
(* Model of parser.py: the cookie security evaluator                       *)
(* _get_cookie_security_recommendations and the scan orchestrator          *)
(* scan_cookies (request, per-cookie loop, aggregation, doc.txt report,    *)
(* the two except branches).                                               *)
(*                                                                         *)
(* Python values are tagged tuples so that truthiness (`not x`) is         *)
(* computed the way the interpreter computes it:                           *)
(*   <<"None">>, <<"bool", b>>, <<"str", s>>, <<"int", class>>,            *)
(*   <<"isostr", x>> (the result of datetime.isoformat()),                 *)
(*   <<"set", S>>, <<"list", s>>.                                          *)
(* Strings whose order matters (the recommendation texts, which are        *)
(* sorted) are sequences of Unicode code points.                           *)
(***************************************************************************)
EXTENDS Integers, Sequences, FiniteSets, TLC

VARIABLES
    url,              \* argument of scan_cookies
    server,           \* how the host at url answers the one GET of this call
    clock,            \* what datetime.now() reads
    results,          \* the dict built at lines 32-38
    response,         \* what requests.get returned
    idx,              \* position of the for loop over response.cookies
    cookie_info,      \* local of the loop body / argument of the evaluator
    recommendations,  \* list returned by the evaluator
    doc,              \* content of doc.txt
    console,          \* what print() wrote
    ret,              \* <<>> until the function returns, then <<value>>
    requests_sent,    \* number of requests.get calls made
    pc                \* position in the code

vars == <<url, server, clock, results, response, idx, cookie_info, recommendations,
          doc, console, ret, requests_sent, pc>>

(***************************************************************************)
(* Bounds                                                                  *)
(***************************************************************************)
MaxCookies == 2
MaxElapsed == 1

(***************************************************************************)
(* Python values                                                           *)
(***************************************************************************)
PyNone == <<"None">>
PyBool(b) == <<"bool", b>>
PyStr(s) == <<"str", s>>
PyInt(c) == <<"int", c>>
IsoFormat(x) == <<"isostr", x>>
PySet(S) == <<"set", S>>
PyList(s) == <<"list", s>>

\* bool(v): None, False, "" and 0 are falsy
Truthy(v) ==
    CASE v[1] = "None" -> FALSE
      [] v[1] = "bool" -> v[2]
      [] v[1] = "str" -> v[2] # ""
      [] v[1] = "int" -> v[2] # "zero"
      [] OTHER -> TRUE

\* dict.get(key, default)
PyGet(d, key, default) == IF key \in DOMAIN d THEN d[key] ELSE default

(***************************************************************************)
(* The three recommendation texts, as code points.                         *)
(***************************************************************************)
\* 'Ustanovit flag Secure' (Cyrillic), line 12
REC_SECURE ==
    <<1059, 1089, 1090, 1072, 1085, 1086, 1074, 1080, 1090, 1100, 32, 1092,
      1083, 1072, 1075, 32, 83, 101, 99, 117, 114, 101>>

\* 'Ustanovit flag HttpOnly' (Cyrillic), line 14
REC_HTTPONLY ==
    <<1059, 1089, 1090, 1072, 1085, 1086, 1074, 1080, 1090, 1100, 32, 1092,
      1083, 1072, 1075, 32, 72, 116, 116, 112, 79, 110, 108, 121>>

\* 'Ustanovit atribut SameSite (rekomenduemye znacheniya: "Strict" ili "Lax")'
\* (Cyrillic), line 16
REC_SAMESITE ==
    <<1059, 1089, 1090, 1072, 1085, 1086, 1074, 1080, 1090, 1100, 32, 1072,
      1090, 1088, 1080, 1073, 1091, 1090, 32, 83, 97, 109, 101, 83, 105, 116,
      101, 32, 40, 1088, 1077, 1082, 1086, 1084, 1077, 1085, 1076, 1091, 1077,
      1084, 1099, 1077, 32, 1079, 1085, 1072, 1095, 1077, 1085, 1080, 1103,
      58, 32, 34, 83, 116, 114, 105, 99, 116, 34, 32, 1080, 1083, 1080, 32,
      34, 76, 97, 120, 34, 41>>

(***************************************************************************)
(* _get_cookie_security_recommendations                                    *)
(***************************************************************************)
\* mutant: the HttpOnly check runs before the Secure check
GetRecs_swapped(cookie_attributes) ==
    (IF ~Truthy(PyGet(cookie_attributes, "httponly", PyNone))
        THEN <<REC_HTTPONLY>> ELSE <<>>)
    \o (IF ~Truthy(PyGet(cookie_attributes, "secure", PyNone))
        THEN <<REC_SECURE>> ELSE <<>>)
    \o (IF ~Truthy(PyGet(cookie_attributes, "samesite_value", PyNone))
        THEN <<REC_SAMESITE>> ELSE <<>>)

\* mutant: SameSite is tested with `is None`, so "" counts as set
GetRecs_isnone(cookie_attributes) ==
    (IF ~Truthy(PyGet(cookie_attributes, "secure", PyNone))
        THEN <<REC_SECURE>> ELSE <<>>)
    \o (IF ~Truthy(PyGet(cookie_attributes, "httponly", PyNone))
        THEN <<REC_HTTPONLY>> ELSE <<>>)
    \o (IF PyGet(cookie_attributes, "samesite_value", PyNone) = PyNone
        THEN <<REC_SAMESITE>> ELSE <<>>)

get_cookie_security_recommendations(cookie_attributes) ==
    (IF ~Truthy(PyGet(cookie_attributes, "secure", PyNone))
        THEN <<REC_SECURE>> ELSE <<>>)
    \o (IF ~Truthy(PyGet(cookie_attributes, "httponly", PyNone))
        THEN <<REC_HTTPONLY>> ELSE <<>>)
    \o (IF ~Truthy(PyGet(cookie_attributes, "samesite_value", PyNone))
        THEN <<REC_SAMESITE>> ELSE <<>>)

(***************************************************************************)
(* Inputs: what the HTTP layer can deliver                                 *)
(***************************************************************************)
URLS == {"https://a.test", "http://b.test"}

NAMES == <<"a", "b", "c", "d">>

\* keys of Cookie._rest the code looks at
RestKeys == {"HttpOnly", "httponly", "SameSite", "samesite"}

\* a flag attribute carries no value (None); SameSite carries None or a string
RestValues(key) ==
    IF key \in {"HttpOnly", "httponly"}
        THEN {PyNone}
        ELSE {PyNone, PyStr(""), PyStr("Strict"), PyStr("Lax"), PyStr("None")}

AllRestValues == UNION {RestValues(k) : k \in RestKeys}

AllRests ==
    UNION { {r \in [D -> AllRestValues] : \A k \in D : r[k] \in RestValues(k)}
            : D \in SUBSET RestKeys }

\* Cookie.expires: None or an epoch, abstracted to the three classes the code
\* distinguishes: 0 (falsy), an epoch datetime.fromtimestamp accepts, and one
\* it rejects (year out of range)
AllExpires == {PyNone, PyInt("zero"), PyInt("in_range"), PyInt("out_of_range")}

Cookie(name, secure, rest, expires) ==
    [name |-> name, value |-> "v", domain |-> "a.test", path |-> "/",
     secure |-> secure, rest |-> rest, expires |-> expires]

\* a jar holding one cookie: every combination of attributes
SingleJars ==
    { <<Cookie(NAMES[1], s, r, e)>> : s \in BOOLEAN, r \in AllRests, e \in AllExpires }

\* jars of several cookies are drawn from a smaller attribute set that still
\* produces each of the eight recommendation lists, with and without a
\* timestamp that cannot be converted
MultiRests ==
    { r \in AllRests :
        \/ DOMAIN r = {}
        \/ DOMAIN r = {"httponly"}
        \/ DOMAIN r = {"samesite"} /\ r["samesite"] = PyStr("None")
        \/ DOMAIN r = {"HttpOnly", "SameSite"} /\ r["SameSite"] = PyStr("Lax") }

MultiExpires == {PyNone, PyInt("out_of_range")}

\* cookie names are unique within a jar; up to renaming the i-th is NAMES[i]
MultiJars ==
    UNION { { [i \in 1..n |-> Cookie(NAMES[i], f[i][1], f[i][2], f[i][3])] :
                f \in [1..n -> BOOLEAN \X MultiRests \X MultiExpires] }
            : n \in 2..MaxCookies }

Jars == {<<>>} \cup SingleJars \cup MultiJars

(***************************************************************************)
(* sorted(list(set)): ascending code-point order of str                    *)
(***************************************************************************)
Min(a, b) == IF a < b THEN a ELSE b

\* a < b for Python str
StrLess(a, b) ==
    \E i \in 1..(Min(Len(a), Len(b)) + 1) :
        /\ \A k \in 1..(i - 1) : a[k] = b[k]
        /\ \/ i > Len(a) /\ i <= Len(b)
           \/ i <= Len(a) /\ i <= Len(b) /\ a[i] < b[i]

RECURSIVE sorted_reverse(_)
\* mutant: sorted(..., reverse=True)
sorted_reverse(S) ==
    IF S = {} THEN <<>>
    ELSE LET m == CHOOSE x \in S : \A y \in S \ {x} : StrLess(y, x)
         IN <<m>> \o sorted_reverse(S \ {m})

RECURSIVE sorted(_)
sorted(S) ==
    IF S = {} THEN <<>>
    ELSE LET m == CHOOSE x \in S : \A y \in S \ {x} : StrLess(x, y)
         IN <<m>> \o sorted(S \ {m})

(***************************************************************************)
(* The loop body, lines 55-77                                              *)
(***************************************************************************)
\* datetime.fromtimestamp(cookie.expires) raises for an epoch out of range
FromTimestampRaises(cookie) ==
    Truthy(cookie.expires) /\ cookie.expires = PyInt("out_of_range")

\* line 56
SameSiteVal(cookie) ==
    PyGet(cookie.rest, "SameSite", PyGet(cookie.rest, "samesite", PyNone))

\* lines 58-69
CookieInfo(cookie) ==
    [name |-> PyStr(cookie.name),
     value |-> PyStr(cookie.value),
     domain |-> PyStr(cookie.domain),
     path |-> PyStr(cookie.path),
     secure |-> PyBool(cookie.secure),
     httponly |-> PyBool("HttpOnly" \in DOMAIN cookie.rest
                         \/ "httponly" \in DOMAIN cookie.rest),
     samesite_value |-> SameSiteVal(cookie),
     expires |-> IF Truthy(cookie.expires)
                    THEN IsoFormat(cookie.expires) ELSE PyNone]

\* cookie_info['recommendations'] = recommendations, line 72
WithRecommendations(info, recs) ==
    [k \in DOMAIN info \cup {"recommendations"} |->
        IF k = "recommendations" THEN recs ELSE info[k]]

Range(s) == {s[i] : i \in 1..Len(s)}

\* mutant: the set is assigned instead of added to
AddAll_assign(S, recs) == Range(recs)

\* mutant: only the first recommendation of a cookie is added
AddAll_first(S, recs) == IF recs = <<>> THEN S ELSE S \cup {recs[1]}

\* lines 75-77
AddAll(S, recs) == S \cup Range(recs)

\* mutant: only cookies that have recommendations are appended
AppendDetail_onlyflagged(details, detail) ==
    IF detail.recommendations # <<>> THEN Append(details, detail) ELSE details

\* line 73
AppendDetail(details, detail) == Append(details, detail)

(***************************************************************************)
(* doc.txt: a sequence of lines <<label, value>>, one per f.write          *)
(***************************************************************************)
NoFile == [exists |-> FALSE, lines |-> <<>>]

\* what an earlier run left behind
StaleFile == [exists |-> TRUE, lines |-> << <<"previous run", PyNone>> >>]

RECURSIVE Flatten(_)
Flatten(ss) == IF ss = <<>> THEN <<>> ELSE Head(ss) \o Flatten(Tail(ss))

\* lines 95-109
CookieLines(n, cookie_detail) ==
    << <<"--- Cookie #", n>>,
       <<"name", cookie_detail.name>>,
       <<"domain", cookie_detail.domain>>,
       <<"path", cookie_detail.path>>,
       <<"Secure", cookie_detail.secure>>,
       <<"HttpOnly", cookie_detail.httponly>>,
       <<"SameSite", IF Truthy(cookie_detail.samesite_value)
                        THEN cookie_detail.samesite_value ELSE PyStr("not set")>>,
       <<"Expires", IF Truthy(cookie_detail.expires)
                       THEN cookie_detail.expires ELSE PyStr("session")>> >>
    \o (IF cookie_detail.recommendations # <<>>
           THEN << <<"cookie recommendations", PyNone>> >>
                \o [i \in 1..Len(cookie_detail.recommendations) |->
                        <<"  - ", cookie_detail.recommendations[i]>>]
           ELSE <<>>)
    \o << <<"blank", PyNone>> >>

\* lines 111-117
SiteLines(recs) ==
    << <<"site recommendations", PyNone>> >>
    \o (IF recs # <<>>
           THEN [i \in 1..Len(recs) |-> <<"- ", recs[i]>>]
           ELSE << <<"no issues found", PyNone>> >>)

\* lines 86-117: everything the success branch writes
ReportLines(u, res, resp) ==
    << <<"url", u>>,
       <<"scan time", res.scan_time>>,
       <<"status", resp.status_code>>,
       <<"cookies found", res.cookies_found>> >>
    \o (IF res.cookie_details = <<>> THEN << <<"no cookies", PyNone>> >> ELSE <<>>)
    \o Flatten([i \in 1..Len(res.cookie_details) |->
                    CookieLines(i, res.cookie_details[i])])
    \o SiteLines(res.security_recommendations[2])

\* lines 129-131
ErrorLines(u, error_info) ==
    << <<"error url", u>>,
       <<"time", error_info.scan_time>>,
       <<"error", error_info.error>> >>

\* with open('doc.txt', 'w') as f: every write went through
FileWritten(lines) == [exists |-> TRUE, lines |-> lines]

\* ... or open() or a write raised OSError: a failed open leaves the file as
\* it was, a failed write leaves some proper prefix of the truncated file
FailedWrites(before, lines) ==
    {before}
    \cup { [exists |-> TRUE, lines |-> SubSeq(lines, 1, k)] : k \in 0..(Len(lines) - 1) }

(***************************************************************************)
(* scan_cookies                                                            *)
(***************************************************************************)
NoResponse == [status_code |-> 0, cookies |-> <<>>]

\* requests.get raises one of these itself; raise_for_status raises HTTPError
TransportErrors == {"ConnectionError", "Timeout"}

Statuses == {200, 404, 500}

\* Response.raise_for_status: 4xx and 5xx raise
RaisesForStatus(status_code) == status_code >= 400 /\ status_code < 600

\* lines 121-125
RequestErrorReport(u, exc, now) ==
    [error |-> <<"request error", exc>>, url |-> u, scan_time |-> IsoFormat(now)]

\* lines 138-142
UnexpectedErrorReport(u, exc, now) ==
    [error |-> <<"unexpected error", exc>>, url |-> u, scan_time |-> IsoFormat(now)]

\* what requests.get can meet: an exception of its own, or a response with a
\* status and a cookie jar (an error status carries no cookies of interest)
ServerBehaviours(jars) ==
    { [exc |-> e, status_code |-> 0, cookies |-> <<>>] : e \in TransportErrors }
    \cup { [exc |-> "", status_code |-> c, cookies |-> <<>>] :
                c \in {c \in Statuses : RaisesForStatus(c)} }
    \cup { [exc |-> "", status_code |-> c, cookies |-> jar] :
                c \in {c \in Statuses : ~RaisesForStatus(c)}, jar \in jars }

\* lines 32-38
InitialResults(u, now) ==
    [url |-> u,
     scan_time |-> IsoFormat(now),
     cookies_found |-> 0,
     cookie_details |-> <<>>,
     security_recommendations |-> PySet({})]

\* the state once results is built; datetime.now() reads the clock
InitOver(jars) ==
    /\ url \in URLS
    /\ server \in ServerBehaviours(jars)
    /\ clock = 0
    /\ results = InitialResults(url, 0)
    /\ response = NoResponse
    /\ idx = 0
    /\ cookie_info = <<>>
    /\ recommendations = <<>>
    /\ doc \in {NoFile, StaleFile}
    /\ console = <<>>
    /\ ret = <<>>
    /\ requests_sent = 0
    /\ pc = "Pending"

Init == InitOver(Jars)

\* lines 120-135: the except RequestException branch. The report is written
\* inside its own try; a failure there is printed and swallowed.
HandleRequestException(exc) ==
    \E elapsed \in 0..MaxElapsed :
        LET error_info == RequestErrorReport(url, exc, clock + elapsed)
        IN /\ clock' = clock + elapsed
           /\ ret' = <<error_info>>
           /\ \/ /\ doc' = FileWritten(ErrorLines(url, error_info))
                 /\ console' = console
              \/ /\ doc' \in FailedWrites(doc, ErrorLines(url, error_info))
                 /\ console' = Append(console, <<"critical write error", "OSError">>)
           /\ pc' = "Failed"

\* mutant: the request is issued again after a transport error
RequestRaises_retry ==
    /\ pc = "Pending"
    /\ server.exc \in TransportErrors
    /\ requests_sent < 2
    /\ requests_sent' = requests_sent + 1
    /\ UNCHANGED <<url, server, clock, results, response, idx, cookie_info,
                   recommendations, doc, console, ret, pc>>

\* line 46 raises
RequestRaises ==
    /\ pc = "Pending"
    /\ server.exc \in TransportErrors
    /\ requests_sent' = requests_sent + 1
    /\ HandleRequestException(server.exc)
    /\ UNCHANGED <<url, server, results, response, idx, cookie_info, recommendations>>

\* line 46 returns a response whose status makes line 47 raise
RaiseForStatus ==
    /\ pc = "Pending"
    /\ server.exc \notin TransportErrors
    /\ RaisesForStatus(server.status_code)
    /\ requests_sent' = requests_sent + 1
    /\ response' = [status_code |-> server.status_code, cookies |-> server.cookies]
    /\ HandleRequestException("HTTPError")
    /\ UNCHANGED <<url, server, results, idx, cookie_info, recommendations>>

\* lines 46-52: the request succeeds and the jar is counted
RequestOK ==
    /\ pc = "Pending"
    /\ server.exc \notin TransportErrors
    /\ ~RaisesForStatus(server.status_code)
    /\ requests_sent' = requests_sent + 1
    /\ response' = [status_code |-> server.status_code, cookies |-> server.cookies]
    /\ results' = [results EXCEPT !.cookies_found = Len(response'.cookies)]
    /\ idx' = 1
    /\ pc' = "Loop"
    /\ UNCHANGED <<url, server, clock, cookie_info, recommendations, doc, console, ret>>

\* lines 56-72: cookie_info once the evaluator's list is stored in it
CookieDetail(cookie) ==
    WithRecommendations(CookieInfo(cookie),
                        get_cookie_security_recommendations(CookieInfo(cookie)))

\* lines 56-77: what one iteration does to results
LoopStep(res, cookie) ==
    [res EXCEPT !.cookie_details = AppendDetail(@, CookieDetail(cookie)),
                !.security_recommendations =
                    PySet(AddAll(@[2], CookieDetail(cookie).recommendations))]

\* lines 55-77: one iteration of the loop
LoopBody ==
    /\ pc = "Loop"
    /\ idx <= Len(response.cookies)
    /\ ~FromTimestampRaises(response.cookies[idx])
    /\ results' = LoopStep(results, response.cookies[idx])
    /\ cookie_info' = CookieDetail(response.cookies[idx])
    /\ recommendations' =
            get_cookie_security_recommendations(CookieInfo(response.cookies[idx]))
    /\ idx' = idx + 1
    /\ UNCHANGED <<url, server, clock, response, doc, console, ret, requests_sent, pc>>

\* mutant: the failure is swallowed and what was gathered so far is returned
\* together with the error
LoopRaises_partial ==
    /\ pc = "Loop"
    /\ idx <= Len(response.cookies)
    /\ FromTimestampRaises(response.cookies[idx])
    /\ ret' = <<[results EXCEPT !.security_recommendations = PyList(sorted(@[2]))]>>
    /\ pc' = "Failed"
    /\ UNCHANGED <<url, server, clock, results, response, idx, cookie_info,
                   recommendations, doc, console, requests_sent>>

\* line 66 raises inside the loop; lines 136-142 return the generic report
LoopRaises ==
    /\ pc = "Loop"
    /\ idx <= Len(response.cookies)
    /\ FromTimestampRaises(response.cookies[idx])
    /\ \E elapsed \in 0..MaxElapsed :
        /\ clock' = clock + elapsed
        /\ ret' = <<UnexpectedErrorReport(url, "ValueError", clock + elapsed)>>
    /\ pc' = "Failed"
    /\ UNCHANGED <<url, server, results, response, idx, cookie_info, recommendations,
                   doc, console, requests_sent>>

\* lines 80-118: the loop is over; sort, write doc.txt, return results
WriteReport ==
    /\ pc = "Loop"
    /\ idx > Len(response.cookies)
    /\ results' = [results EXCEPT !.security_recommendations = PyList(sorted(@[2]))]
    /\ doc' = FileWritten(ReportLines(url, results', response))
    /\ ret' = <<results'>>
    /\ pc' = "Success"
    /\ UNCHANGED <<url, server, clock, response, idx, cookie_info, recommendations,
                   console, requests_sent>>

\* lines 80-117 with open() or a write raising OSError, which is not a
\* RequestException: lines 136-142 return the generic report
WriteReportFails ==
    /\ pc = "Loop"
    /\ idx > Len(response.cookies)
    /\ results' = [results EXCEPT !.security_recommendations = PyList(sorted(@[2]))]
    /\ doc' \in FailedWrites(doc, ReportLines(url, results', response))
    /\ \E elapsed \in 0..MaxElapsed :
        /\ clock' = clock + elapsed
        /\ ret' = <<UnexpectedErrorReport(url, "OSError", clock + elapsed)>>
    /\ pc' = "Failed"
    /\ UNCHANGED <<url, server, response, idx, cookie_info, recommendations, console,
                   requests_sent>>

Next ==
    \/ RequestRaises
    \/ RaiseForStatus
    \/ RequestOK
    \/ LoopBody
    \/ LoopRaises
    \/ WriteReport
    \/ WriteReportFails

RECURSIVE RunLoop(_, _)
\* lines 55-77 over a whole jar none of whose cookies makes line 66 raise
RunLoop(res, cookies) ==
    IF cookies = <<>> THEN res
    ELSE RunLoop(LoopStep(res, Head(cookies)), Tail(cookies))

\* lines 52-80: the report fields a jar produces
Aggregate(res, cookies) ==
    [RunLoop([res EXCEPT !.cookies_found = Len(cookies)], cookies)
        EXCEPT !.security_recommendations = PyList(sorted(@[2]))]

Spec == Init /\ [][Next]_vars

\* The control flow alone, for the progress property: jars are built from two
\* cookies, one that goes through the loop and one that makes line 66 raise.
FlowJars ==
    UNION { { [i \in 1..n |-> Cookie(NAMES[i], FALSE, <<>>, f[i])] :
                f \in [1..n -> MultiExpires] }
            : n \in 0..MaxCookies }

FlowInit == InitOver(FlowJars)

\* the function runs to its return: nothing in it waits, the request is
\* bounded by its timeout
FairSpec == FlowInit /\ [][Next]_vars /\ WF_vars(Next)

(***************************************************************************)
(* The evaluator called on its own                                         *)
(***************************************************************************)
EvalKeys == {"secure", "httponly", "samesite_value"}

EvalValues(key) ==
    IF key = "samesite_value"
        THEN {PyNone, PyStr(""), PyStr("Strict"), PyStr("Lax"), PyStr("None")}
        ELSE {PyNone, PyBool(FALSE), PyBool(TRUE)}

AllEvalValues == UNION {EvalValues(k) : k \in EvalKeys}

\* dicts with any of the three keys present or missing
EvalDicts ==
    UNION { {d \in [D -> AllEvalValues] : \A k \in D : d[k] \in EvalValues(k)}
            : D \in SUBSET EvalKeys }

EvalInit ==
    /\ url = ""
    /\ server = [exc |-> "", status_code |-> 0, cookies |-> <<>>]
    /\ clock = 0
    /\ results = <<>>
    /\ response = NoResponse
    /\ idx = 0
    /\ cookie_info \in EvalDicts
    /\ recommendations = <<>>
    /\ doc = NoFile
    /\ console = <<>>
    /\ ret = <<>>
    /\ requests_sent = 0
    /\ pc = "EvalCall"

\* lines 10-19
EvalReturn ==
    /\ pc = "EvalCall"
    /\ recommendations' = get_cookie_security_recommendations(cookie_info)
    /\ ret' = <<recommendations'>>
    /\ pc' = "EvalDone"
    /\ UNCHANGED <<url, server, clock, results, response, idx, cookie_info, doc,
                   console, requests_sent>>

EvalNext == EvalReturn

EvalSpec == EvalInit /\ [][EvalNext]_vars

(***************************************************************************)
(* Properties                                                              *)
(***************************************************************************)
Terminal == {"Success", "Failed"}

\* Pending until the function returns
ScanState == IF pc \in Terminal THEN pc ELSE "Pending"

ErrorKeys == {"error", "url", "scan_time"}

ReportKeys ==
    {"url", "scan_time", "cookies_found", "cookie_details", "security_recommendations"}

\* writing doc.txt raised in this run
WriteFailed ==
    \/ console # <<>>
    \/ ret # <<>> /\ "error" \in DOMAIN ret[1]
       /\ ret[1].error = <<"unexpected error", "OSError">>

\* doc.txt holds what this run had to write
DocWrittenByRun ==
    /\ doc.exists
    /\ doc.lines = IF pc = "Success" THEN ReportLines(url, ret[1], response)
                   ELSE ErrorLines(url, ret[1])

\* C1: whenever scan_cookies has returned - success, request failure or
\* unexpected failure - and writing the file did not itself fail, doc.txt holds
\* this run's report.
C1_DocWrittenOnEveryOutcome ==
    (pc \in Terminal /\ ~WriteFailed) => DocWrittenByRun

\* C2: a failure to write doc.txt does not change the returned value: after a
\* successful request the computed ScanReport is returned, after a failed
\* request the ErrorReport of the request failure.
C2_WriteFailureKeepsReturn ==
    (pc \in Terminal /\ WriteFailed) =>
        IF response = NoResponse \/ RaisesForStatus(response.status_code)
            THEN ret[1].error[1] = "request error"
            ELSE ret = <<results>> /\ DOMAIN ret[1] = ReportKeys

\* the flag is on: the key is there and holds True
FlagOn(d, key) == key \in DOMAIN d /\ d[key] = PyBool(TRUE)

\* SameSite is set: the key is there and holds a non-empty string
SameSiteSet(d) ==
    /\ "samesite_value" \in DOMAIN d
    /\ d["samesite_value"] \notin {PyNone, PyStr("")}

\* C3: the evaluator returns exactly the subsequence of [Secure, HttpOnly,
\* SameSite] whose check fails, in that order.
C3_EvaluatorSubsequence ==
    pc = "EvalDone" =>
        LET Fails(rec) ==
                \/ rec = REC_SECURE /\ ~FlagOn(cookie_info, "secure")
                \/ rec = REC_HTTPONLY /\ ~FlagOn(cookie_info, "httponly")
                \/ rec = REC_SAMESITE /\ ~SameSiteSet(cookie_info)
        IN ret[1] = SelectSeq(<<REC_SECURE, REC_HTTPONLY, REC_SAMESITE>>, Fails)

\* a cookie with secure and httponly False and no SameSite got all three
C3_Witness ==
    /\ pc = "EvalDone"
    /\ DOMAIN cookie_info = EvalKeys
    /\ cookie_info["secure"] = PyBool(FALSE)
    /\ cookie_info["httponly"] = PyBool(FALSE)
    /\ cookie_info["samesite_value"] = PyNone
    /\ ret[1] = <<REC_SECURE, REC_HTTPONLY, REC_SAMESITE>>

\* C4: the SameSite recommendation is in the evaluator's output iff
\* samesite_value is None, missing or "", whatever secure and httponly are.
C4_SameSiteIffUnset ==
    pc = "EvalDone" =>
        (REC_SAMESITE \in Range(ret[1]) <=>
            \/ "samesite_value" \notin DOMAIN cookie_info
            \/ cookie_info["samesite_value"] = PyNone
            \/ cookie_info["samesite_value"] = PyStr(""))

\* SameSite "" is reported as unset next to flags that are on
C4_Witness ==
    /\ pc = "EvalDone"
    /\ DOMAIN cookie_info = EvalKeys
    /\ cookie_info["samesite_value"] = PyStr("")
    /\ cookie_info["secure"] = PyBool(TRUE)
    /\ cookie_info["httponly"] = PyBool(TRUE)
    /\ ret[1] = <<REC_SAMESITE>>

Permuted(s, p) == [i \in 1..Len(s) |-> s[p[i]]]

\* C5: for every permutation of the cookies received, the scan of the permuted
\* jar gives the same security_recommendations, and cookie_details in the
\* permuted order.
C5_PermutationInvariant ==
    pc = "Success" =>
        \A p \in Permutations(1..Len(response.cookies)) :
            LET other == Aggregate(InitialResults(url, clock),
                                   Permuted(response.cookies, p))
            IN /\ other.security_recommendations = ret[1].security_recommendations
               /\ other.cookie_details = Permuted(ret[1].cookie_details, p)

\* two cookies with different, non-empty recommendation lists were scanned
C5_Witness ==
    /\ pc = "Success"
    /\ Len(ret[1].cookie_details) >= 2
    /\ ret[1].cookie_details[1].recommendations = <<REC_SECURE>>
    /\ ret[1].cookie_details[2].recommendations = <<REC_HTTPONLY, REC_SAMESITE>>

\* C6: security_recommendations holds a string iff some cookie of the scan has
\* it among its recommendations, and holds it once.
C6_DeduplicatedUnion ==
    pc = "Success" =>
        LET recs == ret[1].security_recommendations[2]
            details == ret[1].cookie_details
        IN /\ \A s \in {REC_SECURE, REC_HTTPONLY, REC_SAMESITE} :
                s \in Range(recs) <=>
                    \E i \in 1..Len(details) : s \in Range(details[i].recommendations)
           /\ \A i, j \in 1..Len(recs) : recs[i] = recs[j] => i = j

\* two cookies produced the same recommendations, the second also one more
C6_Witness ==
    /\ pc = "Success"
    /\ Len(ret[1].cookie_details) >= 2
    /\ ret[1].cookie_details[1].recommendations = <<REC_SECURE, REC_SAMESITE>>
    /\ ret[1].cookie_details[2].recommendations =
            <<REC_SECURE, REC_HTTPONLY, REC_SAMESITE>>
    /\ ret[1].security_recommendations[1] = "list"
    /\ Len(ret[1].security_recommendations[2]) = 3

\* the values of the site-wide lines of doc.txt, in file order
SiteSection ==
    LET site == SelectSeq(doc.lines, LAMBDA line : line[1] = "- ")
    IN [i \in 1..Len(site) |-> site[i][2]]

\* C7: security_recommendations is in ascending code-point order, in the
\* returned report and in the site-wide section of doc.txt.
C7_SortedAscending ==
    pc = "Success" =>
        LET recs == ret[1].security_recommendations[2]
        IN /\ ret[1].security_recommendations[1] = "list"
           /\ \A i \in 1..(Len(recs) - 1) : StrLess(recs[i], recs[i + 1])
           /\ SiteSection = recs

\* all three texts were collected (Secure first) and come out SameSite,
\* HttpOnly, Secure
C7_Witness ==
    /\ pc = "Success"
    /\ Len(ret[1].cookie_details) >= 1
    /\ ret[1].cookie_details[1].recommendations =
            <<REC_SECURE, REC_HTTPONLY, REC_SAMESITE>>
    /\ ret[1].security_recommendations =
            PyList(<<REC_SAMESITE, REC_HTTPONLY, REC_SECURE>>)
    /\ SiteSection = <<REC_SAMESITE, REC_HTTPONLY, REC_SECURE>>

\* C8: cookies_found is the number of cookies received and the length of
\* cookie_details, whose i-th entry is the evaluation of the i-th cookie; no
\* cookies gives 0 and two empty lists.
C8_CountAndOrder ==
    pc = "Success" =>
        LET r == ret[1]
            n == Len(response.cookies)
        IN /\ r.cookies_found = n
           /\ Len(r.cookie_details) = n
           /\ \A i \in 1..n :
                /\ r.cookie_details[i].name = PyStr(response.cookies[i].name)
                /\ r.cookie_details[i].secure = PyBool(response.cookies[i].secure)
                /\ r.cookie_details[i] =
                        WithRecommendations(
                            CookieInfo(response.cookies[i]),
                            get_cookie_security_recommendations(
                                CookieInfo(response.cookies[i])))
           /\ n = 0 => /\ r.cookies_found = 0
                       /\ r.cookie_details = <<>>
                       /\ r.security_recommendations = PyList(<<>>)

\* two cookies, the first without any recommendation
C8_Witness ==
    /\ pc = "Success"
    /\ Len(response.cookies) = 2
    /\ ret[1].cookies_found = 2
    /\ ret[1].cookie_details[1].recommendations = <<>>
    /\ ret[1].cookie_details[2].recommendations # <<>>

\* C9: a failed scan returns exactly error, url and scan_time, with error
\* filled in; a successful scan returns the report fields and no error.
C9_ReportShapes ==
    /\ pc = "Failed" => /\ ret # <<>>
                        /\ DOMAIN ret[1] = ErrorKeys
                        /\ ret[1].error[2] \in
                                TransportErrors \cup {"HTTPError", "ValueError", "OSError"}
    /\ pc = "Success" => /\ ret # <<>>
                         /\ DOMAIN ret[1] = ReportKeys

\* the scan failed on its second cookie, after the first was evaluated
C9_Witness ==
    /\ pc = "Failed"
    /\ Len(results.cookie_details) = 1
    /\ idx = 2
    /\ ret[1].error = <<"unexpected error", "ValueError">>
    /\ DOMAIN ret[1] = ErrorKeys

\* a step taken in a terminal state changes nothing
TerminalStays == ScanState \in Terminal => UNCHANGED vars

\* C10: the scan starts Pending, sends at most one request, always reaches
\* Success or Failed, never leaves it, and returns nothing in between.
C10_TwoOutcomeMachine ==
    /\ ScanState = "Pending"
    /\ [](requests_sent <= 1)
    /\ [](ScanState = "Pending" <=> ret = <<>>)
    /\ <>(ScanState \in Terminal)
    /\ [][TerminalStays]_vars

\* a transport error ended the scan after its only request
C10_Witness ==
    /\ pc = "Failed"
    /\ requests_sent = 1
    /\ response = NoResponse
    /\ ret[1].error[1] = "request error"

====
